---- MODULE Spec2Model ----
(***************************************************************************)
(* A model of the signal matrix: the definition store (SignalDefMap), the  *)
(* evaluation planner (CustomPlanner::plan_evaluation) and the pass-wise   *)
(* runner (PlannedEvaluation::run).                                        *)
(*                                                                         *)
(* A Signal is modelled by the u64 it wraps.  A HashSet is a set, a        *)
(* HashMap a function, a Vec a sequence, Option<T> a sequence of length    *)
(* at most one (<<>> is None, <<v>> is Some(v)).  An f64 is modelled by an *)
(* integer: the definitions the model inserts are built from small         *)
(* integer constants with negation, addition, subtraction and              *)
(* multiplication, on which f64 arithmetic is exact.                       *)
(***************************************************************************)
EXTENDS Integers, Sequences, FiniteSets, TLC

\* ---------------------------------------------------------------- bounds
\* A new store gets at most MaxNodes definitions; the handles such a
\* definition or a root target set may name are 0 .. MaxNodes-1, so a
\* definition may name itself, a later handle or a handle the store never
\* gets (handles of another store).  The store of the test, of five
\* definitions, is an initial state beside the new store.
MaxNodes == 2
\* Constants inserted are 1 .. MaxConst.
MaxConst == 2
\* The planning loop is followed for at most MaxPasses recorded frontiers
\* (it is unbounded on a cyclic graph).
MaxPasses == 5
\* How often the same roots are planned, and the same plan is run.
MaxPlans == 2
MaxRuns == 2

Handles == 0 .. (MaxNodes - 1)

\* ------------------------------------------------------- small utilities
None == <<>>
Some(v) == <<v>>

Max(S) == CHOOSE x \in S : \A y \in S : y <= x

\* A planner that forgets reverse_passes.
ReverseForgotten(s) == s

\* Vec::reverse
Reverse(s) == [k \in 1 .. Len(s) |-> s[Len(s) + 1 - k]]

\* HashMap::insert(k, v): the key is added or its value replaced.
MapInsert(m, k, v) == [x \in (DOMAIN m) \cup {k} |-> IF x = k THEN v ELSE m[x]]

\* ------------------------------------------------- FloatMapSignalDef
Constant(v) == [kind |-> "Constant", value |-> v]
Neg(s) == [kind |-> "Neg", s |-> s]
BinaryOp(op, a, b) == [kind |-> op, a |-> a, b |-> b]

\* The binary operations the model inserts.  Div and Pow are left out:
\* their f64 results leave the integers.
BinOps == {"Add", "Sub", "Mul"}

\* The definitions over the handles H.
FloatMapSignalDef(H) ==
  {Constant(v) : v \in 1 .. MaxConst}
    \cup {Neg(s) : s \in H}
    \cup {BinaryOp(op, p[1], p[2]) : op \in BinOps, p \in H \X H}

\* The store tests::test_planned_evaluation builds: a = 1, b = 2,
\* c = a + b, d = -c, e = c * d, with the handles 0 .. 4.
TestDefset ==
  (0 :> Constant(1)) @@ (1 :> Constant(2)) @@ (2 :> BinaryOp("Add", 0, 1))
    @@ (3 :> Neg(2)) @@ (4 :> BinaryOp("Mul", 2, 3))

\* Every handle of the model.
AllHandles == Handles \cup DOMAIN TestDefset

\* An implementation of SignalDef other than FloatMapSignalDef, one whose
\* dependencies() is not a function of the definition: a call returns
\* any one of the sets in alts.  Its evaluate adds up the values of its
\* context.
Dyn(alts) == [kind |-> "Dyn", alts |-> alts]

\* The definitions of a store that holds such definitions: constants,
\* negations, and Dyn definitions that answer one of two sets of at most
\* one dependency.
DynSignalDef(H) ==
  LET D == {{}} \cup {{h} : h \in H}
  IN {Constant(v) : v \in 1 .. MaxConst}
       \cup {Neg(s) : s \in H}
       \cup {Dyn(alts) : alts \in {A \in SUBSET D : Cardinality(A) = 2}}

\* <FloatMapSignalDef as SignalDef>::dependencies
dependencies(def) ==
  CASE def.kind = "Constant" -> {}
    [] def.kind = "Neg" -> {def.s}
    [] OTHER -> {def.a, def.b}

\* SignalDef::dependencies: the answers a call on def may give.
Dependencies(def) ==
  IF def.kind = "Dyn" THEN def.alts ELSE {dependencies(def)}

RECURSIVE SumOver(_, _)
SumOver(ctx, S) ==
  IF S = {} THEN 0
  ELSE LET x == CHOOSE y \in S : TRUE IN ctx[x] + SumOver(ctx, S \ {x})

\* <FloatMapSignalDef as SignalDef>::evaluate; ctx is EvalContext.values
evaluate(def, ctx) ==
  CASE def.kind = "Constant" -> def.value
    [] def.kind = "Dyn" -> SumOver(ctx, DOMAIN ctx)
    [] def.kind = "Neg" -> 0 - ctx[def.s]
    [] def.kind = "Add" -> ctx[def.a] + ctx[def.b]
    [] def.kind = "Sub" -> ctx[def.a] - ctx[def.b]
    [] def.kind = "Mul" -> ctx[def.a] * ctx[def.b]

\* ------------------------------------------------------------------ state
VARIABLES
  map,                  \* SignalDefMap.map
  last_id,              \* SignalDefMap.last_id
  pc,                   \* where the caller / planner / runner stands
  root_targets,         \* PlannedEvaluation.root_targets
  dep_registry,         \* plan_evaluation: dep_registry
  unsatisfied_targets,  \* plan_evaluation: unsatisfied_targets
  passes,               \* plan_evaluation: passes, then PlannedEvaluation.passes
  queued_targets,       \* dedup_passes: queued_targets
  dedup_i,              \* dedup_passes: index (from 1) of the pass being retained
  dedup_todo,           \* dedup_passes: targets of that pass retain has not visited
  plan_no,              \* number of plan_evaluation calls begun
  prev_passes,          \* the passes of the previous plan of the same roots
  pass_i,               \* run: i, the index (from 0) of the pass being run
  values,               \* run: values.values
  evaluations,          \* run: evaluations, target -> value, as far as collected
  contexts,             \* run: the EvalContext.values built for each target of the pass
  committed,            \* run: the targets of the pass whose result is inserted
  panic,                \* the panic that ended planning or the run, or None
  run_no,               \* number of run calls begun on the current plan
  prev_values,          \* the value map the previous run returned
  supplied,             \* the value map the caller handed to the current run
  eval_count,           \* per handle, evaluate calls in the current run
  write_count,          \* per handle, value map inserts in the current run
  lookup,               \* what the caller's last get calls returned, until it resumes
  issued                \* the handles insert returned, in order, each with the definition given

store == <<map, last_id>>
planner == <<root_targets, dep_registry, unsatisfied_targets, passes,
             queued_targets, dedup_i, dedup_todo, plan_no, prev_passes>>
runner == <<pass_i, values, evaluations, contexts, committed, run_no,
            prev_values, supplied, eval_count, write_count>>
vars == <<store, pc, planner, runner, panic, lookup, issued>>

EmptyMap == [x \in {} |-> 0]

\* The caller holds a store: a new one (SignalDefMap::new), or the one
\* tests::test_planned_evaluation has built.
Init ==
  /\ map \in {EmptyMap, TestDefset}
  /\ last_id = Cardinality(DOMAIN map)
  /\ issued = [i \in 1 .. last_id |-> [id |-> i - 1, def |-> map[i - 1]]]
  /\ pc = "build"
  /\ root_targets = {}
  /\ dep_registry = EmptyMap
  /\ unsatisfied_targets = {}
  /\ passes = <<>>
  /\ queued_targets = {}
  /\ dedup_i = 0
  /\ dedup_todo = {}
  /\ plan_no = 0
  /\ prev_passes = <<>>
  /\ pass_i = 0
  /\ values = EmptyMap
  /\ evaluations = EmptyMap
  /\ contexts = EmptyMap
  /\ committed = {}
  /\ panic = None
  /\ run_no = 0
  /\ prev_values = EmptyMap
  /\ supplied = EmptyMap
  /\ lookup = None
  /\ eval_count = [h \in AllHandles |-> 0]
  /\ write_count = [h \in AllHandles |-> 0]

\* ------------------------------------------------------------ SignalDefMap
\* An insert that bumps last_id before it takes the handle from it.
InsertBumpFirst(def) ==
  /\ pc = "build"
  /\ last_id < MaxNodes
  /\ LET id == last_id + 1
     IN /\ last_id' = last_id + 1
        /\ map' = MapInsert(map, id, def)
        /\ issued' = Append(issued, [id |-> id, def |-> def])
  /\ UNCHANGED <<lookup, pc, planner, runner, panic>>

\* SignalDefMap::insert
Insert(def) ==
  /\ pc = "build"
  /\ last_id < MaxNodes
  /\ LET id == last_id
     IN /\ last_id' = last_id + 1
        /\ map' = MapInsert(map, id, def)
        /\ issued' = Append(issued, [id |-> id, def |-> def])
  /\ UNCHANGED <<lookup, pc, planner, runner, panic>>

\* A get that answers with a default definition for a handle it does
\* not hold.
getOrDefault(m, signal) ==
  IF signal \in DOMAIN m THEN Some(m[signal]) ELSE Some(Constant(0))

\* SignalDefMap::get
get(m, signal) == IF signal \in DOMAIN m THEN Some(m[signal]) ELSE None

\* SignalDefMap::dependency_registry: the maps it may return, one answer
\* of dependencies() per definition.
DependencyRegistry(m) ==
  {reg \in [DOMAIN m -> UNION {Dependencies(m[s]) : s \in DOMAIN m}] :
     \A s \in DOMAIN m : reg[s] \in Dependencies(m[s])}

\* The handles the caller can name as root targets.
RootChoices == SUBSET (Handles \cup DOMAIN map)

\* ------------------------------------------------------------ the planner
\* SignalMatrix::new and the head of plan_evaluation, up to the loop.
PlanEvaluation(roots) ==
  /\ pc = "build"
  /\ pc' = "plan_loop"
  /\ root_targets' = roots
  /\ dep_registry' \in DependencyRegistry(map)
  /\ passes' = <<>>
  /\ unsatisfied_targets' = roots
  /\ plan_no' = 1
  /\ UNCHANGED <<lookup, issued, store, queued_targets, dedup_i, dedup_todo, prev_passes,
                 runner, panic>>

\* A loop whose next frontier is the dependencies of the target the
\* HashSet happens to yield first, not of them all.
PlanLoopFirstTarget ==
  /\ pc = "plan_loop"
  /\ Len(passes) < MaxPasses
  /\ LET pass == unsatisfied_targets
         unknown == pass \ DOMAIN dep_registry
     IN IF unknown # {}
        THEN /\ pc' = "plan_panic"
             /\ panic' = Some([kind |-> "unwrap_none"])
             /\ UNCHANGED <<unsatisfied_targets, passes>>
        ELSE /\ IF pass = {}
                THEN /\ pc' = "reverse"
                     /\ passes' = passes
                     /\ unsatisfied_targets' = {}
                ELSE /\ pc' = "plan_loop"
                     /\ passes' = Append(passes, pass)
                     /\ \E t \in pass : unsatisfied_targets' = dep_registry[t]
             /\ panic' = panic
  /\ UNCHANGED <<lookup, issued, store, root_targets, dep_registry, queued_targets, dedup_i,
                 dedup_todo, plan_no, prev_passes, runner>>

\* A loop that tests the pass for emptiness only after pushing it.
PlanLoopPushFirst ==
  /\ pc = "plan_loop"
  /\ Len(passes) < MaxPasses
  /\ LET pass == unsatisfied_targets
         unknown == pass \ DOMAIN dep_registry
     IN IF unknown # {}
        THEN /\ pc' = "plan_panic"
             /\ panic' = Some([kind |-> "unwrap_none"])
             /\ UNCHANGED <<unsatisfied_targets, passes>>
        ELSE /\ unsatisfied_targets' = UNION {dep_registry[t] : t \in pass}
             /\ passes' = Append(passes, pass)
             /\ pc' = IF pass = {} THEN "reverse" ELSE "plan_loop"
             /\ panic' = panic
  /\ UNCHANGED <<lookup, issued, store, root_targets, dep_registry, queued_targets, dedup_i,
                 dedup_todo, plan_no, prev_passes, runner>>

\* A loop that plans a target the registry lacks as a leaf.
PlanLoopUnknownAsLeaf ==
  /\ pc = "plan_loop"
  /\ Len(passes) < MaxPasses
  /\ LET pass == unsatisfied_targets
         known == pass \cap DOMAIN dep_registry
     IN /\ unsatisfied_targets' = UNION {dep_registry[t] : t \in known}
        /\ IF pass = {}
           THEN /\ pc' = "reverse"
                /\ passes' = passes
           ELSE /\ pc' = "plan_loop"
                /\ passes' = Append(passes, pass)
        /\ panic' = panic
  /\ UNCHANGED <<lookup, issued, store, root_targets, dep_registry, queued_targets, dedup_i,
                 dedup_todo, plan_no, prev_passes, runner>>

\* A loop that keeps out of the next frontier the handles it has already
\* recorded in a pass.
PlanLoopVisited ==
  /\ pc = "plan_loop"
  /\ Len(passes) < MaxPasses
  /\ LET pass == unsatisfied_targets
         unknown == pass \ DOMAIN dep_registry
         seen == pass \cup UNION {passes[k] : k \in 1 .. Len(passes)}
     IN IF unknown # {}
        THEN /\ pc' = "plan_panic"
             /\ panic' = Some([kind |-> "unwrap_none"])
             /\ UNCHANGED <<unsatisfied_targets, passes>>
        ELSE /\ unsatisfied_targets' =
                  UNION {dep_registry[t] : t \in pass} \ seen
             /\ IF pass = {}
                THEN /\ pc' = "reverse"
                     /\ passes' = passes
                ELSE /\ pc' = "plan_loop"
                     /\ passes' = Append(passes, pass)
             /\ panic' = panic
  /\ UNCHANGED <<lookup, issued, store, root_targets, dep_registry, queued_targets, dedup_i,
                 dedup_todo, plan_no, prev_passes, runner>>

\* One iteration of the loop: the frontier is the pass, the next frontier
\* is the union of the registered dependencies of its targets (get(..)
\* .unwrap() panics on a target the registry lacks), and the pass is
\* pushed unless it is empty, which breaks.
PlanLoop ==
  /\ pc = "plan_loop"
  /\ Len(passes) < MaxPasses
  /\ LET pass == unsatisfied_targets
         unknown == pass \ DOMAIN dep_registry
     IN IF unknown # {}
        THEN /\ pc' = "plan_panic"
             /\ panic' = Some([kind |-> "unwrap_none"])
             /\ UNCHANGED <<unsatisfied_targets, passes>>
        ELSE /\ unsatisfied_targets' = UNION {dep_registry[t] : t \in pass}
             /\ IF pass = {}
                THEN /\ pc' = "reverse"
                     /\ passes' = passes
                ELSE /\ pc' = "plan_loop"
                     /\ passes' = Append(passes, pass)
             /\ panic' = panic
  /\ UNCHANGED <<lookup, issued, store, root_targets, dep_registry, queued_targets, dedup_i,
                 dedup_todo, plan_no, prev_passes, runner>>

\* A dedup_passes that starts with the root targets already queued.
ReversePassesQueuedRoots ==
  /\ pc = "reverse"
  /\ passes' = Reverse(passes)
  /\ queued_targets' = root_targets
  /\ dedup_i' = 1
  /\ dedup_todo' = IF Len(passes) = 0 THEN {} ELSE passes'[1]
  /\ pc' = "dedup"
  /\ UNCHANGED <<lookup, issued, store, root_targets, dep_registry, unsatisfied_targets,
                 plan_no, prev_passes, runner, panic>>

\* reverse_passes, and the head of dedup_passes.
ReversePasses ==
  /\ pc = "reverse"
  /\ passes' = Reverse(passes)
  /\ queued_targets' = {}
  /\ dedup_i' = 1
  /\ dedup_todo' = IF Len(passes) = 0 THEN {} ELSE passes'[1]
  /\ pc' = "dedup"
  /\ UNCHANGED <<lookup, issued, store, root_targets, dep_registry, unsatisfied_targets,
                 plan_no, prev_passes, runner, panic>>

\* A retain closure that keeps every target.
RetainKeepsAll(queued, target) == TRUE

\* The retain closure of dedup_passes.
RetainKeeps(queued, target) == target \notin queued

\* A retain closure that never inserts into queued_targets.
DedupRetainNoInsert(target) ==
  /\ pc = "dedup"
  /\ target \in dedup_todo
  /\ dedup_todo' = dedup_todo \ {target}
  /\ IF RetainKeeps(queued_targets, target)
     THEN passes' = passes
     ELSE passes' = [passes EXCEPT ![dedup_i] = @ \ {target}]
  /\ UNCHANGED <<lookup, issued, store, pc, root_targets, dep_registry, unsatisfied_targets,
                 queued_targets, dedup_i, plan_no, prev_passes, runner, panic>>

\* dedup_passes: retain visits one target of the current pass, in whatever
\* order the HashSet yields them.
DedupRetain(target) ==
  /\ pc = "dedup"
  /\ target \in dedup_todo
  /\ dedup_todo' = dedup_todo \ {target}
  /\ IF RetainKeeps(queued_targets, target)
     THEN /\ queued_targets' = queued_targets \cup {target}
          /\ passes' = passes
     ELSE /\ queued_targets' = queued_targets
          /\ passes' = [passes EXCEPT ![dedup_i] = @ \ {target}]
  /\ UNCHANGED <<lookup, issued, store, pc, root_targets, dep_registry, unsatisfied_targets,
                 dedup_i, plan_no, prev_passes, runner, panic>>

\* dedup_passes: retain of the current pass is done; on to the next pass,
\* or, after the last, the PlannedEvaluation is built and returned.
DedupNext ==
  /\ pc = "dedup"
  /\ dedup_todo = {}
  /\ IF dedup_i < Len(passes)
     THEN /\ dedup_i' = dedup_i + 1
          /\ dedup_todo' = passes[dedup_i + 1]
          /\ pc' = "dedup"
     ELSE /\ dedup_i' = dedup_i
          /\ dedup_todo' = {}
          /\ pc' = "planned"
  /\ UNCHANGED <<lookup, issued, store, root_targets, dep_registry, unsatisfied_targets,
                 passes, queued_targets, plan_no, prev_passes, runner, panic>>

\* The caller plans the same root targets again on the unmodified matrix.
Replan ==
  /\ pc = "planned"
  /\ run_no = 0
  /\ plan_no < MaxPlans
  /\ plan_no' = plan_no + 1
  /\ prev_passes' = passes
  /\ pc' = "plan_loop"
  /\ dep_registry' \in DependencyRegistry(map)
  /\ passes' = <<>>
  /\ unsatisfied_targets' = root_targets
  /\ UNCHANGED <<lookup, issued, store, root_targets, queued_targets, dedup_i, dedup_todo,
                 runner, panic>>

\* ------------------------------------------------------------- the plan
\* PlannedEvaluation::all_queued_targets
all_queued_targets(ps) == UNION {ps[k] : k \in 1 .. Len(ps)}

\* EvaluationValueMap::new_empty
new_empty(targets) == [s \in targets |-> None]

\* EvaluationValueMap::get
value_get(vals, signal) == IF signal \in DOMAIN vals THEN vals[signal] ELSE None

\* ------------------------------------------------------------- the runner
\* The dependencies whose value gather_context does not find.
MissingDeps(vals, deps) == {dep \in deps : value_get(vals, dep) = None}

\* A panic message whose first two arguments are swapped.
MissingValuePanicSwapped(dep, target, i) ==
  [kind |-> "missing_value", dep |-> target, target |-> dep, pass |-> i]

\* The panic of gather_context: "Missing value for dependency {dep:?}
\* while evaluating {target:?} in pass {i}".
MissingValuePanic(dep, target, i) ==
  [kind |-> "missing_value", dep |-> dep, target |-> target, pass |-> i]

\* A gather_context that hands over every value the value map holds.
GatherContextAll(vals, deps) ==
  [dep \in {d \in DOMAIN vals : vals[d] # None} |-> vals[dep][1]]

\* A gather_context that pairs every dependency with the value of one.
GatherContextOne(vals, deps) ==
  [dep \in deps |-> vals[CHOOSE d \in deps : TRUE][1]]

\* gather_context: EvalContext.values for the dependencies deps.
GatherContext(vals, deps) == [dep \in deps |-> vals[dep][1]]

\* The value maps a caller hands to run: the one sized by
\* all_queued_targets (as tests::test_planned_evaluation does), one with
\* no entry at all, and one with an empty slot for every handle a store
\* of MaxNodes definitions issues.
ValueMapChoices == {all_queued_targets(passes), {}, Handles}

\* A run that starts from a map of its own, sized by the plan, instead
\* of the map it was handed.
RunFresh(targets) ==
  /\ pc = "planned"
  /\ run_no < MaxRuns
  /\ run_no' = run_no + 1
  /\ prev_values' = IF run_no = 0 THEN EmptyMap ELSE values
  /\ supplied' = new_empty(targets)
  /\ values' = new_empty(all_queued_targets(passes))
  /\ pass_i' = 0
  /\ evaluations' = EmptyMap
  /\ contexts' = EmptyMap
  /\ committed' = {}
  /\ eval_count' = [h \in AllHandles |-> 0]
  /\ write_count' = [h \in AllHandles |-> 0]
  /\ pc' = IF Len(passes) = 0 THEN "returned" ELSE "evaluate"
  /\ UNCHANGED <<lookup, issued, store, planner, panic>>

\* The caller builds a value map with new_empty and calls run on it.
Run(targets) ==
  /\ pc = "planned"
  /\ run_no < MaxRuns
  /\ run_no' = run_no + 1
  /\ prev_values' = IF run_no = 0 THEN EmptyMap ELSE values
  /\ supplied' = new_empty(targets)
  /\ values' = supplied'
  /\ pass_i' = 0
  /\ evaluations' = EmptyMap
  /\ contexts' = EmptyMap
  /\ committed' = {}
  /\ eval_count' = [h \in AllHandles |-> 0]
  /\ write_count' = [h \in AllHandles |-> 0]
  /\ pc' = IF Len(passes) = 0 THEN "returned" ELSE "evaluate"
  /\ UNCHANGED <<lookup, issued, store, planner, panic>>

\* A closure that writes its result into the value map itself.
EvaluateWriteThrough(target) ==
  /\ pc = "evaluate"
  /\ target \in passes[pass_i + 1] \ DOMAIN evaluations
  /\ IF get(map, target) = None
     THEN /\ pc' = "run_panic"
          /\ panic' = Some([kind |-> "unwrap_none"])
          /\ UNCHANGED <<evaluations, contexts, eval_count, values>>
     ELSE \E deps \in Dependencies(map[target]) :
            IF MissingDeps(values, deps) # {}
            THEN \E dep \in MissingDeps(values, deps) :
                   /\ pc' = "run_panic"
                   /\ panic' = Some(MissingValuePanic(dep, target, pass_i))
                   /\ UNCHANGED <<evaluations, contexts, eval_count, values>>
            ELSE LET context == GatherContext(values, deps)
                     value == evaluate(map[target], context)
                 IN /\ evaluations' = MapInsert(evaluations, target, value)
                    /\ contexts' = MapInsert(contexts, target, context)
                    /\ eval_count' = [eval_count EXCEPT ![target] = @ + 1]
                    /\ values' = MapInsert(values, target, Some(value))
                    /\ UNCHANGED <<pc, panic>>
  /\ UNCHANGED <<lookup, issued, store, planner, pass_i, committed, run_no,
                 prev_values, supplied, write_count>>

\* The closure of the parallel map for one target of the current pass:
\* the definition is fetched, its context gathered from the value map (a
\* dependency without a value panics) and the definition evaluated.
Evaluate(target) ==
  /\ pc = "evaluate"
  /\ target \in passes[pass_i + 1] \ DOMAIN evaluations
  /\ IF get(map, target) = None
     THEN /\ pc' = "run_panic"
          /\ panic' = Some([kind |-> "unwrap_none"])
          /\ UNCHANGED <<evaluations, contexts, eval_count>>
     ELSE \E deps \in Dependencies(map[target]) :
            IF MissingDeps(values, deps) # {}
            THEN \E dep \in MissingDeps(values, deps) :
                   /\ pc' = "run_panic"
                   /\ panic' = Some(MissingValuePanic(dep, target, pass_i))
                   /\ UNCHANGED <<evaluations, contexts, eval_count>>
            ELSE LET context == GatherContext(values, deps)
                     value == evaluate(map[target], context)
                 IN /\ evaluations' = MapInsert(evaluations, target, value)
                    /\ contexts' = MapInsert(contexts, target, context)
                    /\ eval_count' = [eval_count EXCEPT ![target] = @ + 1]
                    /\ UNCHANGED <<pc, panic>>
  /\ UNCHANGED <<lookup, issued, store, planner, pass_i, values, committed, run_no,
                 prev_values, supplied, write_count>>

\* A collect() that does not wait for every closure of the pass.
CollectEarly ==
  /\ pc = "evaluate"
  /\ evaluations # EmptyMap
  /\ pc' = "commit"
  /\ UNCHANGED <<lookup, issued, store, planner, runner, panic>>

\* collect(): every closure of the pass has returned.
Collect ==
  /\ pc = "evaluate"
  /\ DOMAIN evaluations = passes[pass_i + 1]
  /\ pc' = "commit"
  /\ UNCHANGED <<lookup, issued, store, planner, runner, panic>>

\* An insert that sets only a slot the value map already has.
CommitExistingSlot(target) ==
  /\ pc = "commit"
  /\ target \in (DOMAIN evaluations) \ committed
  /\ values' = IF target \in DOMAIN values
                THEN MapInsert(values, target, Some(evaluations[target]))
                ELSE values
  /\ committed' = committed \cup {target}
  /\ write_count' = [write_count EXCEPT ![target] = @ + 1]
  /\ UNCHANGED <<lookup, issued, store, pc, planner, pass_i, evaluations, contexts, run_no,
                 prev_values, supplied, eval_count, panic>>

\* An insert that also takes the target out of its pass, so that the
\* plan is used up by the run.
CommitDrain(target) ==
  /\ pc = "commit"
  /\ target \in (DOMAIN evaluations) \ committed
  /\ values' = MapInsert(values, target, Some(evaluations[target]))
  /\ committed' = committed \cup {target}
  /\ write_count' = [write_count EXCEPT ![target] = @ + 1]
  /\ passes' = [passes EXCEPT ![pass_i + 1] = @ \ {target}]
  /\ UNCHANGED <<lookup, issued, store, pc, root_targets, dep_registry,
                 unsatisfied_targets, queued_targets, dedup_i, dedup_todo,
                 plan_no, prev_passes, pass_i, evaluations, contexts, run_no,
                 prev_values, supplied, eval_count, panic>>

\* One iteration of the loop over evaluations: values.insert.
Commit(target) ==
  /\ pc = "commit"
  /\ target \in (DOMAIN evaluations) \ committed
  /\ values' = MapInsert(values, target, Some(evaluations[target]))
  /\ committed' = committed \cup {target}
  /\ write_count' = [write_count EXCEPT ![target] = @ + 1]
  /\ UNCHANGED <<lookup, issued, store, pc, planner, pass_i, evaluations, contexts, run_no,
                 prev_values, supplied, eval_count, panic>>

\* A loop over passes that goes on before every result is inserted.
NextPassEarly ==
  /\ pc = "commit"
  /\ evaluations' = EmptyMap
  /\ contexts' = EmptyMap
  /\ committed' = {}
  /\ IF pass_i + 1 < Len(passes)
     THEN /\ pass_i' = pass_i + 1
          /\ pc' = "evaluate"
     ELSE /\ pass_i' = pass_i
          /\ pc' = "returned"
  /\ UNCHANGED <<lookup, issued, store, planner, values, run_no, prev_values, supplied, eval_count,
                 write_count, panic>>

\* The end of the body of the loop over passes: on to the next pass, or
\* run returns values.
NextPass ==
  /\ pc = "commit"
  /\ committed = DOMAIN evaluations
  /\ evaluations' = EmptyMap
  /\ contexts' = EmptyMap
  /\ committed' = {}
  /\ IF pass_i + 1 < Len(passes)
     THEN /\ pass_i' = pass_i + 1
          /\ pc' = "evaluate"
     ELSE /\ pass_i' = pass_i
          /\ pc' = "returned"
  /\ UNCHANGED <<lookup, issued, store, planner, values, run_no, prev_values, supplied, eval_count,
                 write_count, panic>>

\* The caller keeps the returned map and is ready to run the plan again.
Rerun ==
  /\ pc = "returned"
  /\ run_no < MaxRuns
  /\ pc' = "planned"
  /\ UNCHANGED <<lookup, issued, store, planner, runner, panic>>

\* What the caller, the planner and the runner do with a store; the
\* caller sizes the value map by all_queued_targets, as
\* tests::test_planned_evaluation does.
Step ==
  \/ \E roots \in RootChoices : PlanEvaluation(roots)
  \/ PlanLoop
  \/ ReversePasses
  \/ \E target \in dedup_todo : DedupRetain(target)
  \/ DedupNext
  \/ Replan
  \/ Run(all_queued_targets(passes))
  \/ \E target \in AllHandles : Evaluate(target)
  \/ Collect
  \/ \E target \in AllHandles : Commit(target)
  \/ NextPass
  \/ Rerun

Next ==
  \/ \E def \in FloatMapSignalDef(Handles) : Insert(def)
  \/ Step

Spec == Init /\ [][Next]_vars

\* One call of plan_evaluation on a store, alone.  The planner is a
\* sequential loop: an iteration that can run does run.
NextPlanner ==
  \/ \E def \in FloatMapSignalDef(Handles) : Insert(def)
  \/ \E roots \in RootChoices : PlanEvaluation(roots)
  \/ PlanLoop
  \/ ReversePasses
  \/ \E target \in dedup_todo : DedupRetain(target)
  \/ DedupNext

SpecPlanner == Init /\ [][NextPlanner]_vars /\ WF_vars(PlanLoop)

\* The handles a caller may look up: those of the stores, and one no
\* store here has issued.
LookupHandles == AllHandles \cup {Max(AllHandles) + 1}

\* Between its other calls the caller looks a handle up in the store
\* (SignalDefMap::get) and in the value map it holds
\* (EvaluationValueMap::get); both take &self.
Lookup(signal) ==
  /\ pc \in {"build", "planned", "returned"}
  /\ lookup' = Some([signal |-> signal,
                     def    |-> get(map, signal),
                     value  |-> value_get(values, signal),
                     from   |-> pc])
  /\ pc' = "lookup"
  /\ UNCHANGED <<issued, store, planner, runner, panic>>

\* The caller drops what the lookups returned and goes on.
Resume ==
  /\ pc = "lookup"
  /\ pc' = lookup[1].from
  /\ lookup' = None
  /\ UNCHANGED <<issued, store, planner, runner, panic>>

\* A caller that plans once and runs the plan once, on a value map of its
\* choice, and looks handles up in between.
NextCaller ==
  \/ \E def \in FloatMapSignalDef(Handles) : Insert(def)
  \/ \E roots \in RootChoices : PlanEvaluation(roots)
  \/ PlanLoop
  \/ ReversePasses
  \/ \E target \in dedup_todo : DedupRetain(target)
  \/ DedupNext
  \/ \E targets \in ValueMapChoices : Run(targets)
  \/ \E target \in AllHandles : Evaluate(target)
  \/ Collect
  \/ \E target \in AllHandles : Commit(target)
  \/ NextPass
  \/ \E signal \in LookupHandles : Lookup(signal)
  \/ Resume

SpecCaller == Init /\ [][NextCaller]_vars

\* The store of a caller whose definitions are DynSignalDef.
InitDyn == Init /\ map = EmptyMap

NextDyn ==
  \/ \E def \in DynSignalDef(Handles) : Insert(def)
  \/ Step

SpecDyn == InitDyn /\ [][NextDyn]_vars

\* ------------------------------------------------- the dependency graph
\* The definitions from here on state the properties checked; they are
\* computed on the store, not by the planner or the runner.

\* The direct dependencies a stored FloatMapSignalDef declares.
DepsOf(h) == IF h \in DOMAIN map THEN dependencies(map[h]) ELSE {}

\* The handles reachable from S along dependency edges, S included.
RECURSIVE Reach(_)
Reach(S) ==
  LET N == S \cup UNION {DepsOf(h) : h \in S}
  IN IF N = S THEN S ELSE Reach(N)

\* Every handle reachable from S has a definition in the store.
Closed(S) == Reach(S) \subseteq DOMAIN map

\* A dependency cycle is reachable from S.
CycleReachable(S) == \E h \in Reach(S) : h \in Reach(DepsOf(h))

\* The number of nodes of the longest dependency chain that starts at h
\* (defined when no cycle is reachable from h).
RECURSIVE Depth(_)
Depth(h) ==
  IF DepsOf(h) = {} THEN 1 ELSE 1 + Max({Depth(d) : d \in DepsOf(h)})

\* The number of nodes of the longest dependency chain from any of S.
Height(S) == IF S = {} THEN 0 ELSE Max({Depth(h) : h \in S})

\* plan_evaluation has returned a plan.
PlanReturned == pc \in {"planned", "evaluate", "commit", "returned", "run_panic"}

\* The index of the pass of the plan that holds h.
PassOf(h) == CHOOSE k \in 1 .. Len(passes) : h \in passes[k]

\* ------------------------------------------------------------------ C1
\* C1: in a returned plan, every direct dependency of every handle of a
\* pass is in some strictly earlier pass.
C1_TopologicalValidity ==
  PlanReturned =>
    \A i \in 1 .. Len(passes) : \A H \in passes[i] : \A d \in DepsOf(H) :
      \E j \in 1 .. (i - 1) : d \in passes[j]

\* A plan of a diamond: the root depends on a handle both directly and
\* through another handle.
C1_Witness ==
  /\ pc = "planned"
  /\ Len(passes) >= 3
  /\ \E H \in passes[Len(passes)] : \E d1, d2 \in DepsOf(H) :
       d1 \in DepsOf(d2) /\ PassOf(d1) < PassOf(d2)

\* ------------------------------------------------------------------ C2
\* C2: the passes of a returned plan cover exactly the transitive
\* dependency closure of the roots, each handle in exactly one pass; on
\* the test store the roots {c, e} give c once, in a pass before e.
C2_AcyclicCompleteness ==
  PlanReturned =>
    /\ all_queued_targets(passes) = Reach(root_targets)
    /\ \A i, j \in 1 .. Len(passes) : i # j => passes[i] \cap passes[j] = {}
    /\ (map = TestDefset /\ root_targets = {2, 4}) =>
         /\ Cardinality({k \in 1 .. Len(passes) : 2 \in passes[k]}) = 1
         /\ PassOf(2) < PassOf(4)

\* The plan of the roots {c, e} on the test store.
C2_Witness ==
  /\ pc = "planned"
  /\ map = TestDefset
  /\ root_targets = {2, 4}
  /\ passes = <<{0, 1}, {2}, {3}, {4}>>

\* ------------------------------------------------------------------ C3
\* C3: while pass i is evaluated or committed, every handle of an earlier
\* pass has been evaluated and its result inserted into the value map,
\* no handle of a later pass has been evaluated, given a context or
\* written, and no result of pass i is inserted before collect() is done.
C3_PassBarrier ==
  pc \in {"evaluate", "commit"} =>
    /\ \A k \in 1 .. Len(passes) : \A h \in passes[k] :
         /\ k < pass_i + 1 =>
              /\ eval_count[h] = 1
              /\ write_count[h] = 1
              /\ value_get(values, h) # None
         /\ k > pass_i + 1 =>
              /\ eval_count[h] = 0
              /\ write_count[h] = 0
              /\ value_get(values, h) = None
    /\ DOMAIN contexts \subseteq passes[pass_i + 1]
    /\ DOMAIN evaluations = DOMAIN contexts
    /\ pc = "evaluate" => committed = {}
    /\ pc = "commit" => DOMAIN evaluations = passes[pass_i + 1]

\* A context is built in a pass that follows a pass of two handles.
C3_Witness ==
  /\ pc = "evaluate"
  /\ pass_i >= 1
  /\ Cardinality(passes[pass_i]) >= 2
  /\ DOMAIN contexts # {}

\* ------------------------------------------------------------------ C4
\* The value of h by recursion over the definitions of the store.
RECURSIVE RefEval(_)
RefEval(h) == evaluate(map[h], [d \in DepsOf(h) |-> RefEval(d)])

\* C4: the value map run returns has an entry for exactly the covered
\* handles, every entry is set, and it is the definition's evaluate on
\* the returned values of its direct dependencies, which is the value of
\* the recursive evaluation; on the test store c = 3, d = -3, e = -9.
C4_ExecutionResult ==
  pc = "returned" =>
    /\ DOMAIN values = all_queued_targets(passes)
    /\ \A h \in all_queued_targets(passes) :
         /\ values[h] # None
         /\ \A d \in DepsOf(h) : value_get(values, d) # None
         /\ values[h][1] = evaluate(map[h], [d \in DepsOf(h) |-> values[d][1]])
         /\ values[h][1] = RefEval(h)
    /\ (map = TestDefset /\ 4 \in root_targets) =>
         /\ values[2] = Some(3)
         /\ values[3] = Some(0 - 3)
         /\ values[4] = Some(0 - 9)

\* The run of the plan of {e} on the test store has returned e = -9.
C4_Witness ==
  /\ pc = "returned"
  /\ map = TestDefset
  /\ root_targets = {4}
  /\ value_get(values, 4) = Some(0 - 9)

\* ------------------------------------------------------------------ C5
\* C5: in a run no handle is evaluated or written more than once, and
\* when run returns every covered handle has been evaluated once and
\* written once, and no other handle at all.
C5_WriteOnce ==
  /\ \A h \in AllHandles : eval_count[h] <= 1 /\ write_count[h] <= 1
  /\ pc = "returned" =>
       \A h \in AllHandles :
         LET n == IF h \in all_queued_targets(passes) THEN 1 ELSE 0
         IN eval_count[h] = n /\ write_count[h] = n

\* A run over a diamond has returned: the shared dependency, recorded in
\* two frontiers, was evaluated once.
C5_Witness ==
  /\ pc = "returned"
  /\ Len(passes) >= 3
  /\ \E H \in passes[Len(passes)] : \E d1, d2 \in DepsOf(H) :
       d1 \in DepsOf(d2) /\ eval_count[d1] = 1

\* ------------------------------------------------------------------ C6
\* C6: the value map a second run of the same plan returns, from a fresh
\* value map, equals the one the first run returned, in whatever order
\* the handles of each pass were evaluated and inserted in either run.
C6_DeterministicResult ==
  (pc = "returned" /\ run_no >= 2) => values = prev_values

\* A second run has returned, over a plan with a pass of two handles
\* (which can be evaluated and inserted in either order).
C6_Witness ==
  /\ pc = "returned"
  /\ run_no = 2
  /\ \E k \in 1 .. Len(passes) : Cardinality(passes[k]) >= 2
  /\ Len(passes) >= 2

\* ------------------------------------------------------------------ C7
\* C7: a second plan of the same root targets on the unmodified store has
\* the same number of passes and, index by index, the same handle sets as
\* the first, in whatever order retain visited the targets of a pass.
C7_IdempotentPlanning ==
  (PlanReturned /\ plan_no >= 2) =>
    /\ Len(passes) = Len(prev_passes)
    /\ \A k \in 1 .. Len(passes) : passes[k] = prev_passes[k]

\* A second plan of a diamond with a frontier of two handles has returned.
C7_Witness ==
  /\ pc = "planned"
  /\ plan_no = 2
  /\ Len(passes) >= 3
  /\ \E k \in 1 .. Len(passes) : Cardinality(passes[k]) >= 2

\* ------------------------------------------------------------------ C8
\* What holds of a run as to missing dependencies: a run that panicked
\* reports a handle of the pass it was in, that pass's index and a
\* dependency the handle declared that has no value in the value map
\* (no key, or an unset entry), and has not evaluated the handle; and
\* every context built holds, for one answer of the handle's
\* dependencies(), the value the value map has for each dependency.
C8_RunState ==
  /\ pc = "run_panic" =>
       /\ panic # None
       /\ panic[1].kind = "missing_value"
       /\ panic[1].pass = pass_i
       /\ panic[1].target \in passes[pass_i + 1]
       /\ panic[1].dep \in UNION Dependencies(map[panic[1].target])
       /\ value_get(values, panic[1].dep) = None
       /\ panic[1].target \notin DOMAIN evaluations
       /\ eval_count[panic[1].target] = 0
  /\ \A t \in DOMAIN contexts :
       /\ DOMAIN contexts[t] \in Dependencies(map[t])
       /\ \A d \in DOMAIN contexts[t] :
            value_get(values, d) = Some(contexts[t][d])

\* C8: a node one of whose declared dependencies has no value when its
\* context is built is not evaluated, with a default or a partial
\* context or otherwise: the run panics, reporting the node, the
\* dependency and the pass index, and the panicked run never returns a
\* value map nor does anything more.
C8_MissingDependencyAborts ==
  /\ []C8_RunState
  /\ [][pc = "run_panic" => (pc' = "run_panic" /\ values' = values)]_vars

\* A run has panicked in a pass after the first, on a dependency that a
\* definition declared at run time only.
C8_Witness ==
  /\ pc = "run_panic"
  /\ panic # None
  /\ panic[1].kind = "missing_value"
  /\ panic[1].pass >= 1
  /\ panic[1].dep \notin dep_registry[panic[1].target]

\* ------------------------------------------------------------------ C9
\* Every handle reachable from S is in the store and no cycle is.
WellFormed(S) == Closed(S) /\ ~CycleReachable(S)

\* The loop of a plan of well-formed roots: it does not panic, the
\* frontiers recorded so far and the longest chain still ahead of the
\* frontier add up to the longest chain from the roots, the bound of the
\* model does not cut it, and it is left with an empty frontier and as
\* many recorded frontiers as the longest chain from a root has nodes.
C9_LoopVariant ==
  (plan_no > 0 /\ WellFormed(root_targets)) =>
    /\ pc # "plan_panic"
    /\ pc = "plan_loop" =>
         /\ Len(passes) + Height(unsatisfied_targets) = Height(root_targets)
         /\ Len(passes) < MaxPasses
    /\ pc = "reverse" =>
         /\ unsatisfied_targets = {}
         /\ Len(passes) = Height(root_targets)

\* C9: on well-formed roots the frontier-expansion loop reaches an empty
\* frontier and is left, having recorded as many frontiers as the longest
\* dependency chain from any root has nodes.
C9_PlannerTerminates ==
  /\ []C9_LoopVariant
  /\ (pc = "plan_loop" /\ WellFormed(root_targets)) ~> (pc = "reverse")

\* The loop is left after four frontiers: the plan of {e} on the test
\* store, whose longest chain is e, d, c, a.
C9_Witness ==
  /\ pc = "reverse"
  /\ map = TestDefset
  /\ root_targets = {4}
  /\ Len(passes) = 4
  /\ Height(root_targets) = 4

\* ----------------------------------------------------------------- C10
\* The statement of C10 without a condition on the store: once roots
\* from which a cycle is reachable are planned, the planner stays in the
\* loop, with a frontier that is not empty.
C10_CycleAlwaysLoops ==
  (plan_no > 0 /\ CycleReachable(root_targets)) =>
    (pc = "plan_loop" /\ unsatisfied_targets # {})

\* C10: once roots are planned from which a cycle is reachable, and every
\* handle reachable from them is in the store, the planner stays in the
\* loop without a panic, its frontier is never empty, and every iteration
\* records one more pass, which is not empty.
C10_CycleNeverTerminates ==
  /\ []((plan_no > 0 /\ CycleReachable(root_targets) /\ Closed(root_targets)) =>
          (pc = "plan_loop" /\ unsatisfied_targets # {} /\ panic = None))
  /\ [][(pc = "plan_loop" /\ CycleReachable(root_targets)
           /\ Closed(root_targets)) =>
          /\ Len(passes') = Len(passes) + 1
          /\ passes'[Len(passes')] # {}
          /\ \A k \in 1 .. Len(passes) : passes'[k] = passes[k]]_vars

\* The loop over a cycle of two handles has recorded as many passes as
\* the model follows.
C10_Witness ==
  /\ pc = "plan_loop"
  /\ Closed(root_targets)
  /\ \E h \in Reach(root_targets) : h \in Reach(DepsOf(h)) /\ h \notin DepsOf(h)
  /\ Len(passes) = MaxPasses

\* ----------------------------------------------------------------- C11
\* C11: the plan of an empty root set has zero passes and an empty
\* all_queued_targets; a run of that plan evaluates nothing, writes
\* nothing, does not panic and returns the value map it was handed
\* unchanged.
C11_EmptyRoots ==
  (PlanReturned /\ root_targets = {}) =>
    /\ passes = <<>>
    /\ all_queued_targets(passes) = {}
    /\ pc \in {"planned", "returned"}
    /\ values = supplied
    /\ panic = None
    /\ \A h \in AllHandles : eval_count[h] = 0 /\ write_count[h] = 0

\* The plan of no roots on a store that has definitions was run on a
\* value map that has slots, and run has returned.
C11_Witness ==
  /\ pc = "returned"
  /\ root_targets = {}
  /\ map # EmptyMap
  /\ DOMAIN supplied # {}

\* ----------------------------------------------------------------- C12
\* What a pair of lookups of one handle has to return in the state it is
\* made in: the stored definition or nothing, the committed value or
\* nothing (also for a slot that is present and not yet evaluated).
C12_LookupResult ==
  lookup # None =>
    LET l == lookup[1]
    IN /\ pc = "lookup"
       /\ l.signal \notin DOMAIN map => l.def = None
       /\ l.signal \in DOMAIN map => l.def = Some(map[l.signal])
       /\ l.signal \notin DOMAIN values => l.value = None
       /\ l.signal \in DOMAIN values => l.value = values[l.signal]
       /\ (l.from = "returned" /\ l.signal \in all_queued_targets(passes))
            => l.value # None

\* C12: SignalDefMap::get and EvaluationValueMap::get of a handle that is
\* absent (or, in the value map, present and not evaluated) return
\* nothing, never a default, and of a present one what is stored; a
\* lookup changes neither the store nor the value map nor the plan.
C12_UnknownHandle ==
  /\ []C12_LookupResult
  /\ [][(pc' = "lookup" \/ pc = "lookup") =>
          /\ map' = map /\ last_id' = last_id
          /\ values' = values
          /\ passes' = passes]_vars

\* After a run returned, the caller looked up a handle the store does
\* not hold and whose slot in the value map was never evaluated.
C12_Witness ==
  /\ pc = "lookup"
  /\ lookup # None
  /\ lookup[1].from = "returned"
  /\ lookup[1].signal \notin DOMAIN map
  /\ lookup[1].signal \in DOMAIN values
  /\ lookup[1].def = None
  /\ lookup[1].value = None
  /\ all_queued_targets(passes) # {}

\* ----------------------------------------------------------------- C13
\* C13: from the call of plan_evaluation on, no step of the planner or of
\* the runner changes the store; from the call of run on, no step changes
\* the passes or the root targets of the plan; and a second run of the
\* same plan on a fresh value map returns without a panic, having
\* evaluated every covered handle again, with the values of the first.
C13_ReadOnlyStoreReusablePlan ==
  /\ [][pc' # "build" => (map' = map /\ last_id' = last_id)]_vars
  /\ [][run_no' >= 1 => (passes' = passes /\ root_targets' = root_targets)]_vars
  /\ []((pc = "returned" /\ run_no >= 2) =>
          /\ panic = None
          /\ \A h \in all_queued_targets(passes) :
               eval_count[h] = 1 /\ values[h] = prev_values[h])

\* The plan of {e} on the test store has been run twice.
C13_Witness ==
  /\ pc = "returned"
  /\ run_no = 2
  /\ map = TestDefset
  /\ root_targets = {4}
  /\ Len(passes) = 4
  /\ values = prev_values

\* ----------------------------------------------------------------- C14
\* The handles insert has returned so far are 0, 1, 2, ... in the order
\* of the calls, the store holds exactly these, and each still maps to
\* the definition it was inserted with.
C14_IssuedHandles ==
  /\ Len(issued) = last_id
  /\ DOMAIN map = 0 .. (last_id - 1)
  /\ \A i \in 1 .. Len(issued) :
       /\ issued[i].id = i - 1
       /\ get(map, issued[i].id) = Some(issued[i].def)
  /\ \A i, j \in 1 .. Len(issued) : i # j => issued[i].id # issued[j].id

\* C14: the n-th insert into a new store returns the handle n-1, the
\* handles returned are pairwise distinct and each maps to the definition
\* given with it; no step removes a handle from the store, maps one to
\* another definition or lowers last_id.
C14_HandleFreshness ==
  /\ []C14_IssuedHandles
  /\ [][/\ DOMAIN map \subseteq DOMAIN map'
         /\ \A h \in DOMAIN map : map'[h] = map[h]
         /\ last_id' >= last_id
         /\ last_id' # last_id =>
              /\ last_id' = last_id + 1
              /\ last_id \notin DOMAIN map
              /\ DOMAIN map' = DOMAIN map \cup {last_id}]_vars

\* A new store has had MaxNodes inserts, of definitions that are not all
\* the same, and a plan over it has been run.
C14_Witness ==
  /\ last_id = MaxNodes
  /\ Len(issued) = MaxNodes
  /\ issued[1].def # issued[MaxNodes].def
  /\ pc = "returned"
  /\ all_queued_targets(passes) = DOMAIN map

\* ----------------------------------------------------------------- C15
\* The handles reachable from the roots that depend directly on h.
Dependents(h) == {p \in Reach(root_targets) : h \in DepsOf(p)}

\* L(h): the number of edges of the longest dependency chain from any
\* root target to h (defined when no cycle is reachable from the roots).
RECURSIVE LongestChainTo(_)
LongestChainTo(h) ==
  Max((IF h \in root_targets THEN {0} ELSE {})
      \cup {LongestChainTo(p) + 1 : p \in Dependents(h)})

\* K: the maximum of L over the planned handles.
LongestChain == Max({LongestChainTo(h) : h \in Reach(root_targets)})

\* C15: the plan of a non-empty root set over an acyclic graph has K+1
\* passes and holds every planned handle H in the pass of index
\* K - L(H) from 0, and nowhere else; a root that is a bare constant
\* alone gives the single pass of that root, and the root e on the test
\* store gives {a,b}, {c}, {d}, {e}.
C15_LongestChainPlacement ==
  (pc = "planned" /\ WellFormed(root_targets) /\ root_targets # {}) =>
    /\ Len(passes) = LongestChain + 1
    /\ \A H \in Reach(root_targets) :
         \A k \in 1 .. Len(passes) :
           H \in passes[k] <=> k = (LongestChain - LongestChainTo(H)) + 1
    /\ all_queued_targets(passes) \subseteq Reach(root_targets)
    /\ \A a \in DOMAIN map :
         (root_targets = {a} /\ DepsOf(a) = {}) => passes = <<{a}>>
    /\ (map = TestDefset /\ root_targets = {4}) =>
         passes = <<{0, 1}, {2}, {3}, {4}>>

\* A plan has been returned in which a handle with a short and a long
\* chain from the roots (c of the test store: e-c and e-d-c, planned from
\* e and c) sits where the long one puts it.
C15_Witness ==
  /\ pc = "planned"
  /\ map = TestDefset
  /\ root_targets = {2, 4}
  /\ LongestChainTo(2) = 2
  /\ passes = <<{0, 1}, {2}, {3}, {4}>>

\* ----------------------------------------------------------------- C16
\* C16: no pass of a returned plan is empty, although dedup_passes takes
\* handles out of passes and no step drops a pass: the plan has as many
\* passes as frontiers were recorded, one per node of the longest chain
\* from the roots.
C16_NoEmptyPasses ==
  (PlanReturned /\ ~CycleReachable(root_targets)) =>
    /\ \A k \in 1 .. Len(passes) : passes[k] # {}
    /\ Len(passes) = Height(root_targets)

\* A plan has been returned in which dedup_passes took a handle out of a
\* pass (a dependency of a handle of the next pass that sits in an
\* earlier pass) and the pass still holds a handle.
C16_Witness ==
  /\ pc = "planned"
  /\ ~CycleReachable(root_targets)
  /\ \E k \in 2 .. (Len(passes) - 1) :
       /\ passes[k] # {}
       /\ \E x \in passes[k + 1] : \E h \in DepsOf(x) : PassOf(h) < k

\* ----------------------------------------------------------------- C17
\* C17: the context built for a node of the pass being run has an entry
\* for each handle of the node's dependencies() and for no other handle,
\* every entry is the value the value map holds for that dependency,
\* committed in an earlier pass, and the node's result is its evaluate
\* on that context; the values of other handles, those of earlier passes
\* included, are not in it.
C17_NarrowContext ==
  \A t \in DOMAIN contexts :
    /\ pc \in {"evaluate", "commit", "run_panic"}
    /\ t \in passes[pass_i + 1]
    /\ DOMAIN contexts[t] = dependencies(map[t])
    /\ \A d \in DOMAIN contexts[t] :
         /\ value_get(values, d) = Some(contexts[t][d])
         /\ \E j \in 1 .. pass_i : d \in passes[j]
    /\ \A h \in AllHandles \ dependencies(map[t]) : h \notin DOMAIN contexts[t]
    /\ t \in DOMAIN evaluations
    /\ evaluations[t] = evaluate(map[t], contexts[t])

\* A node with dependencies has been evaluated while the value map held
\* the value of a handle of an earlier pass that is not one of them.
C17_Witness ==
  /\ pc = "evaluate"
  /\ \E t \in DOMAIN contexts :
       /\ DOMAIN contexts[t] # {}
       /\ \E h \in DOMAIN values :
            /\ values[h] # None
            /\ h \notin DOMAIN contexts[t]
            /\ h \notin passes[pass_i + 1]

\* ----------------------------------------------------------------- C18
\* What holds of the pass being run: no handle of it depends on a handle
\* of it, and every value an evaluation of it has read belongs to a
\* handle of an earlier pass, written once, neither staged in this pass
\* nor among the slots this pass writes.
C18_PassState ==
  /\ PlanReturned =>
       \A k \in 1 .. Len(passes) : \A H \in passes[k] :
         DepsOf(H) \cap passes[k] = {}
  /\ \A t \in DOMAIN contexts : \A d \in DOMAIN contexts[t] :
       /\ d \notin passes[pass_i + 1]
       /\ d \notin DOMAIN evaluations
       /\ \E j \in 1 .. pass_i : d \in passes[j]
       /\ write_count[d] = 1
  /\ pc = "evaluate" =>
       /\ committed = {}
       /\ \A t \in passes[pass_i + 1] :
            value_get(values, t) = None /\ write_count[t] = 0

\* C18: no two handles of a pass are joined by a dependency edge; while
\* the evaluations of a pass run, in any order, the value map is not
\* written (results are staged, and inserted only after all of them are
\* collected); every value an evaluation of pass i reads was committed
\* in a pass before i and no slot of pass i is read or set before the
\* pass has been collected.
C18_NoIntraPassRace ==
  /\ []C18_PassState
  /\ [][pc = "evaluate" => values' = values]_vars
  /\ [][values' # values =>
          /\ pc = "planned" \/ (pc = "commit" /\ DOMAIN evaluations = passes[pass_i + 1])
          /\ pc' \in {"commit", "evaluate", "returned"}]_vars

\* In a pass after the first an evaluation has read committed values and
\* its result is staged while its slot in the value map is still unset;
\* the first pass of the plan had two handles to evaluate concurrently.
C18_Witness ==
  /\ pc = "evaluate"
  /\ pass_i >= 1
  /\ Cardinality(passes[1]) >= 2
  /\ \E t \in DOMAIN evaluations :
       /\ DOMAIN contexts[t] # {}
       /\ value_get(values, t) = None

\* ----------------------------------------------------------------- C19
\* What holds of a call of plan_evaluation as to handles the store does
\* not hold: the loop is left for reverse and dedup, and a plan returned,
\* only if every handle reachable from the roots is in the store; while
\* the loop runs on roots that reach an absent handle, the frontier still
\* leads to one and every recorded handle is in the store; and the
\* planner has panicked, on the registry lookup, only with an absent
\* handle in the frontier, and holds no plan.
C19_PlannerState ==
  /\ (pc \in {"reverse", "dedup"} \/ PlanReturned) =>
       /\ Closed(root_targets)
       /\ all_queued_targets(passes) \subseteq DOMAIN map
       /\ panic = None \/ pc = "run_panic"
  /\ (pc = "plan_loop" /\ ~Closed(root_targets)) =>
       /\ Reach(unsatisfied_targets) \ DOMAIN map # {}
       /\ all_queued_targets(passes) \subseteq DOMAIN map
  /\ pc = "plan_panic" =>
       /\ ~Closed(root_targets)
       /\ panic = Some([kind |-> "unwrap_none"])
       /\ unsatisfied_targets \ DOMAIN map # {}
       /\ run_no = 0

\* C19: plan_evaluation returns a plan only if every root target and
\* every handle reachable from the roots is in the store; a call with a
\* root or a transitively declared dependency the store lacks panics on
\* the registry lookup, with or without a cycle among the handles, and
\* the panicked call never yields a plan: the absent handle is neither
\* skipped nor planned as a leaf.
C19_UnknownHandlePanics ==
  /\ []C19_PlannerState
  /\ [][pc = "plan_panic" => pc' = "plan_panic"]_vars
  /\ (pc = "plan_loop" /\ ~Closed(root_targets)) ~> (pc = "plan_panic")

\* Planning has panicked after it recorded a frontier: the roots are in
\* the store, a dependency reached from them is not.
C19_Witness ==
  /\ pc = "plan_panic"
  /\ root_targets # {}
  /\ root_targets \subseteq DOMAIN map
  /\ Len(passes) >= 1
  /\ unsatisfied_targets \ DOMAIN map # {}

\* ----------------------------------------------------------------- C20
\* C20: a run of a plan plan_evaluation returned, over definitions whose
\* dependencies() does not change, never panics: whatever value map it
\* was handed, also one with no entry for any covered handle, every
\* dependency of every handle of the pass being evaluated has a value,
\* and the map returned has the entries handed in and a value for every
\* covered handle.
C20_NoMissingDependency ==
  /\ pc # "run_panic"
  /\ PlanReturned => panic = None
  /\ pc = "evaluate" =>
       \A t \in passes[pass_i + 1] :
         /\ get(map, t) # None
         /\ MissingDeps(values, dependencies(map[t])) = {}
  /\ pc = "returned" =>
       /\ DOMAIN values = DOMAIN supplied \cup all_queued_targets(passes)
       /\ \A h \in all_queued_targets(passes) : value_get(values, h) # None
       /\ \A h \in DOMAIN supplied \ all_queued_targets(passes) : values[h] = None

\* A plan of at least three passes has been run to its end on a value
\* map that had no entry at all.
C20_Witness ==
  /\ pc = "returned"
  /\ supplied = EmptyMap
  /\ Len(passes) >= 3
  /\ DOMAIN values = all_queued_targets(passes)

====
